---- MODULE Spec2Model ----
(***************************************************************************)
(* rendermath.py: render a LaTeX math fragment to a PNG through two        *)
(* external programs (latex, dvipng), cache the result in a directory      *)
(* under a content-addressed filename, report the baseline.                *)
(*                                                                         *)
(* Strings are sequences of characters (one-character TLA+ strings).       *)
(* A path is a record [root, name]: root is a directory ("." means the     *)
(* caller's working directory) and name is a filename, <<>> for the        *)
(* directory itself.  The filesystem is flat: three directories, each      *)
(* holding regular files and (opaque) sub-directories.  The directory      *)
(* NamedTemporaryFile uses ("tmp") is never the caller's working           *)
(* directory and never a render target.                                    *)
(*                                                                         *)
(* Spec: one caller, a run of latex or dvipng through call() is one step.  *)
(* SpecRunner: one caller, call() taken step by step (temp files, child    *)
(* process, wait, read, remove).                                           *)
(* SpecConc: two callers whose steps interleave, rendering one source to   *)
(* one initially empty directory.                                          *)
(***************************************************************************)
EXTENDS Integers, Sequences, FiniteSets, TLC

\* ------------------------------------------------------------------ bounds
MaxCalls == 2
MaxInitEntries == 1

\* calls of render_math when call() is taken step by step
MaxRunnerCalls == 1

\* ----------------------------------------------------------- string helpers
None == -1

Digits == <<"0", "1", "2", "3", "4", "5", "6", "7", "8", "9">>

IsDigit(c) == \E d \in 1..10 : Digits[d] = c

DigitVal(c) == (CHOOSE d \in 1..10 : Digits[d] = c) - 1

\* str(n) / repr(n) / "%d" % n for a non-negative int
RECURSIVE str(_)
str(n) == IF n < 10 THEN <<Digits[n + 1]>>
          ELSE str(n \div 10) \o <<Digits[(n % 10) + 1]>>

\* int(s) for a non-empty string of decimal digits
RECURSIVE int(_)
int(s) == IF s = <<>> THEN 0
          ELSE int(SubSeq(s, 1, Len(s) - 1)) * 10 + DigitVal(s[Len(s)])

\* repr(True) / repr(False)
repr_bool(b) == IF b THEN <<"T", "r", "u", "e">> ELSE <<"F", "a", "l", "s", "e">>

\* Python truth value of an optional int: None and 0 are both false
Truthy(v) == v # None /\ v # 0

\* index of the last character of the longest run of digits of s that starts
\* at position i; i - 1 when s[i] is no digit (the greedy \d+ of the patterns)
RECURSIVE DigitRunEnd(_, _)
DigitRunEnd(s, i) == IF i <= Len(s) /\ IsDigit(s[i]) THEN DigitRunEnd(s, i + 1)
                     ELSE i - 1

\* s[i:] starts with lit
StartsAt(s, i, lit) == /\ i + Len(lit) - 1 <= Len(s)
                       /\ SubSeq(s, i, i + Len(lit) - 1) = lit

\* ------------------------------------------------------------- MathSource
\* hashlib.md5 of the bytes it was fed, as a hex digest.  The digest is taken
\* as collision-free: distinct feeds give distinct digests, and (all digests
\* having one length) no digest is a proper part of another, which the
\* brackets keep true here.
md5_hexdigest(bytes) == <<"<">> \o bytes \o <<">">>

\* MathSource.__init__
MathSource(src, dpi, is_display) ==
    [src |-> src, dpi |-> dpi, is_display |-> is_display, baseline |-> None]

\* MathSource.hashed: three update() calls feed the concatenation
hashed(self) == md5_hexdigest(self.src \o str(self.dpi) \o repr_bool(self.is_display))

\* the positions of filename at which r"%s_(?P<baseline>\d+)_.*" matches
MatchPositions(self, filename) ==
    LET pat == hashed(self) \o <<"_">>
    IN {i \in 1..Len(filename) :
          /\ StartsAt(filename, i, pat)
          /\ LET d == i + Len(pat)
                 e == DigitRunEnd(filename, d)
             IN e >= d /\ e + 1 <= Len(filename) /\ filename[e + 1] = "_"}

\* re.search is not anchored: a match may start anywhere in the filename
SearchPositions(self, filename) == MatchPositions(self, filename)

\* MathSource.matches: the baseline in the leftmost match, or None
matches(self, filename) ==
    LET ps == SearchPositions(self, filename)
    IN IF ps = {} THEN None
       ELSE LET i == CHOOSE p \in ps : \A q \in ps : p <= q
                d == i + Len(hashed(self)) + 1
            IN int(SubSeq(filename, d, DigitRunEnd(filename, d)))

\* the test of generated_filename: `if not self.baseline`
BaselineNotSet(baseline) == ~Truthy(baseline)

\* MathSource.generated_filename(suffix=".png"), when it does not raise
generated_filename(self) ==
    hashed(self) \o <<"_">> \o str(self.baseline) \o <<"_">> \o <<".", "p", "n", "g">>

\* ------------------------------------------------------------- filesystem
Dirs == {"tmp", "cache", "work"}

TempDir == "tmp"

NoPath == [root |-> "", name |-> <<>>]

\* the directory a path's root stands for, seen from working directory wd
RootOf(path, wd) == IF path.root = "." THEN wd ELSE path.root

\* the key of a path in the filesystem, seen from working directory wd
Key(path, wd) == <<RootOf(path, wd), path.name>>

\* os.path.abspath
abspathUnresolved(path, wd) == path

abspath(path, wd) == [root |-> RootOf(path, wd), name |-> path.name]

\* os.path.join(dirpath, filename) for a relative filename
join(dirpath, filename) == [root |-> dirpath.root, name |-> filename]

\* os.path.isdir
isdir(files, path, wd) ==
    \/ path.name = <<>> /\ RootOf(path, wd) \in Dirs
    \/ /\ Key(path, wd) \in DOMAIN files
       /\ files[Key(path, wd)].kind = "dir"

\* os.path.isfile
isfile(files, path, wd) ==
    /\ Key(path, wd) \in DOMAIN files
    /\ files[Key(path, wd)].kind = "file"

\* os.listdir(dirpath): the names of the entries, files and directories alike
listdir(files, dirpath, wd) == {k[2] : k \in {q \in DOMAIN files : q[1] = RootOf(dirpath, wd)}}

\* a regular file with the given content at key k, replacing what was there
WriteFile(files, k, data) ==
    [q \in DOMAIN files \cup {k} |-> IF q = k THEN [kind |-> "file", data |-> data]
                                      ELSE files[q]]

\* os.remove inside remove_if_exists: OSError (no such file) is swallowed
RemoveAll(files, ks) == [q \in DOMAIN files \ ks |-> files[q]]

\* the number in the name of a file of the temp directory
TempIndex(name) == int(SubSeq(name, 2, DigitRunEnd(name, 2)))

\* NamedTemporaryFile(suffix=suffix, delete=False): a new file in the temp
\* directory under a name no existing file has; of the names that are free,
\* the one with the least number stands for them all
TempNameFirst(files, suffix) == [root |-> TempDir, name |-> <<"t", "1">> \o suffix]

TempName(files, suffix) ==
    LET used == {TempIndex(k[2]) : k \in {q \in DOMAIN files : q[1] = TempDir}}
        n == CHOOSE i \in 1..(Cardinality(used) + 1) : i \notin used
    IN [root |-> TempDir, name |-> <<"t">> \o str(n) \o suffix]

\* tempfilename[:-3] + ext
Sibling(tempfilename, ext) ==
    [root |-> tempfilename.root,
     name |-> SubSeq(tempfilename.name, 1, Len(tempfilename.name) - 3) \o ext]

\* the test find_in_dir makes of a listed filename: os.path.isfile(filename),
\* the bare filename, which the OS resolves against the working directory
LookupIsFile(files, dirpath, filename, wd) ==
    isfile(files, [root |-> ".", name |-> filename], wd)

\* the test find_in_dir makes of the result of matches: `if baseline`
LookupAccepts(baseline) == Truthy(baseline)

\* MathSource.find_in_dir: the filenames on which the loop can return.  The
\* order of os.listdir is arbitrary, so the first of them in the listing may
\* be any of them; none of them: (None, None)
find_in_dir(files, self, dirpath, wd) ==
    {filename \in listdir(files, dirpath, wd) :
        /\ LookupIsFile(files, dirpath, filename, wd)
        /\ LookupAccepts(matches(self, filename))}

\* ------------------------------------------------------ external programs
\* `if latex_err`
LatexFailedNever(latex_err) == FALSE

LatexFailed(latex_err) == latex_err # <<>>

\* the positions of out at which "depth=(\d+)" matches
DepthPositions(out) ==
    LET lit == <<"d", "e", "p", "t", "h", "=">>
    IN {i \in 1..Len(out) :
          StartsAt(out, i, lit) /\ DigitRunEnd(out, i + 6) >= i + 6}

\* re.search("depth=(\d+)", dvipng_out) is None
DepthMissing(out) == DepthPositions(out) = {}

\* int(re.search("depth=(\d+)", dvipng_out).group(1)), when there is a match
ParseDepth(out) ==
    IF DepthPositions(out) = {} THEN None
    ELSE LET i == CHOOSE p \in DepthPositions(out) : \A q \in DepthPositions(out) : p <= q
         IN int(SubSeq(out, i + 6, DigitRunEnd(out, i + 6)))

\* the exception line 154 raises, "" when it raises none: .group on the None
\* that re.search returns is an AttributeError
ParseRaisesNever(out) == ""

ParseRaises(out) == IF DepthMissing(out) THEN "AttributeError" ELSE ""

\* dvipng writes the image when it reports a depth; when it reports none it
\* may or may not have written one
DvipngWrites(out) == IF DepthMissing(out) THEN BOOLEAN ELSE {TRUE}

\* ----------------------------------------------------------------- inputs
Procs == {1, 2}

Expressions == {<<"x">>, <<"x", "1">>}

Resolutions == {20, 120}

\* the (expression, resolution, display_mode) triples
Triples == {<<e, r, d>> : e \in Expressions, r \in Resolutions, d \in BOOLEAN}

\* the triples callers render: one, one that differs from it in expression and
\* resolution, one that differs from it in display mode
Sources == {<<<<"x">>, 120, FALSE>>, <<<<"x", "1">>, 20, FALSE>>, <<<<"x">>, 120, TRUE>>}

OutName == <<"o", ".", "p", "n", "g">>

\* output locations: a directory by its absolute path, the working directory
\* ".", a file by a relative path
Targets == {[root |-> "cache", name |-> <<>>], [root |-> ".", name |-> <<>>],
            [root |-> ".", name |-> OutName]}

WorkDirs == {"cache", "work"}

\* what latex can leave on its error stream
LatexErrs == {<<>>, <<"!">>}

\* the sibling files a latex run can leave behind
Dvi == <<"d", "v", "i">>

Aux == <<"a", "u", "x">>

Log == <<"l", "o", "g">>

LatexOutputs(latex_err) == IF latex_err = <<>> THEN {{Dvi, Aux, Log}, {Dvi, Log}}
                           ELSE {{Log}}

\* what dvipng can print
DvipngOutputs == {<<"[", "1", "]">>,
                  <<"d", "e", "p", "t", "h", "=", "0">>,
                  <<"[", "1", "]", " ", "d", "e", "p", "t", "h", "=", "1", "2", " ">>}

\* what a target directory can hold before the first call: for the source
\* ("x", 120, False), a cached image, one with baseline 0, one whose name has
\* a prefix, a sub-directory named like a cached image, a name without digits
S0 == MathSource(<<"x">>, 120, FALSE)

Png == <<".", "p", "n", "g">>

InitCandidates ==
    {[name |-> hashed(S0) \o <<"_", "7", "_">> \o Png, kind |-> "file"],
     [name |-> hashed(S0) \o <<"_", "0", "_">> \o Png, kind |-> "file"],
     [name |-> <<"p">> \o hashed(S0) \o <<"_", "7", "_">> \o Png, kind |-> "file"],
     [name |-> hashed(S0) \o <<"_", "9", "_">> \o Png, kind |-> "dir"],
     [name |-> hashed(S0) \o <<"_", "_">> \o Png, kind |-> "file"]}

\* the working directory "work" can hold a regular file named like an entry
\* of "cache"
InitWork == {{}, {hashed(S0) \o <<"_", "9", "_">> \o Png}}

InitFs(entries, worknames) ==
    [k \in {<<"cache", e.name>> : e \in entries} \cup {<<"work", n>> : n \in worknames} |->
        IF k[1] = "work" THEN [kind |-> "file", data |-> 0]
        ELSE [kind |-> (CHOOSE e \in entries : e.name = k[2]).kind, data |-> 0]]

\* ------------------------------------------------------------------ state
VARIABLES
    fs,         \* the filesystem: key <<directory, name>> -> [kind, data], the data
                \* of an image being the caller whose dvipng run wrote it
    ncalls,     \* calls started
    history,    \* the last directory-mode call that returned, with what it returned
    active,     \* the callers
    pc,         \* per caller: where its call stands
    cwd,        \* per caller: its working directory
    frame,      \* per caller: the arguments and locals of its call, and those
                \* of the call() it is in
    obs         \* per caller: what its call has done so far, and the state of
                \* the child processes it has started

vars == <<fs, ncalls, history, active, pc, cwd, frame, obs>>

\* the locals of call(): where it stands, the program it runs, its two
\* temporary files with what the child has written to them, the child
\* process with its exit status, and what has been read back
NoCall ==
    [pc |-> "", cmd |-> "", outfilename |-> NoPath, errfilename |-> NoPath,
     proc |-> "none", returncode |-> None, outdata |-> <<>>, errdata |-> <<>>,
     out |-> <<>>, err |-> <<>>]

NoFrame ==
    [op |-> "", path |-> NoPath, call |-> NoCall,
     math_source |-> MathSource(<<>>, 0, FALSE), has_generated_name |-> FALSE,
     image_path |-> NoPath, tempfilename |-> NoPath, latex_err |-> <<>>,
     dvipng_out |-> <<>>, output_path |-> NoPath, baseline |-> None,
     filename |-> <<>>, raised |-> ""]

NoObs ==
    [latex_calls |-> 0, dvipng_calls |-> 0, listdir_calls |-> 0,
     dvipng_o |-> NoPath, created |-> {}, prior |-> {},
     procs |-> [latex |-> "none", dvipng |-> "none"], call_created |-> {}]

Init ==
    /\ \E entries \in SUBSET InitCandidates, worknames \in InitWork :
          /\ Cardinality(entries) <= MaxInitEntries
          /\ worknames \subseteq {e.name : e \in entries}
          /\ fs = InitFs(entries, worknames)
    /\ ncalls = 0
    /\ history = {}
    /\ active = {1}          \* one caller: render_math is synchronous
    /\ pc = [p \in Procs |-> "idle"]
    /\ cwd \in [Procs -> WorkDirs]
    /\ cwd[2] = "work"       \* caller 2 takes no step under Spec
    /\ frame = [p \in Procs |-> NoFrame]
    /\ obs = [p \in Procs |-> NoObs]

\* ---------------------------------------------------------------- actions
\* the frame of a call render_math(src, path, dpi, is_display): line 119
NewFrame(src, path, dpi, is_display) ==
    [NoFrame EXCEPT !.op = "render_math", !.path = path,
                    !.math_source = MathSource(src, dpi, is_display)]

NewObs == [NoObs EXCEPT !.prior = history]

\* what a directory-mode call that returns leaves in the history
Returned(f, wd, rpath, baseline) ==
    [src |-> f.math_source.src, dpi |-> f.math_source.dpi,
     is_display |-> f.math_source.is_display, path |-> f.path,
     dir |-> RootOf(f.path, wd), rpath |-> rpath, baseline |-> baseline]

\* render_math, lines 119-127: the path is a directory and find_in_dir finds
\* a file; the call returns it
EnterHit(p) ==
    /\ pc[p] = "idle" /\ ncalls < MaxCalls
    /\ \E s \in Sources, path \in Targets :
          LET f == NewFrame(s[1], path, s[2], s[3])
          IN /\ isdir(fs, path, cwd[p])
             /\ \E filename \in find_in_dir(fs, f.math_source, path, cwd[p]) :
                   LET baseline == matches(f.math_source, filename)
                       g == [f EXCEPT !.has_generated_name = TRUE,
                                      !.math_source.baseline = baseline,
                                      !.filename = filename,
                                      !.baseline = baseline,
                                      !.output_path = join(path, filename)]
                   IN /\ frame' = [frame EXCEPT ![p] = g]
                      /\ history' = {Returned(g, cwd[p], g.output_path, baseline)}
             /\ obs' = [obs EXCEPT ![p] = [NewObs EXCEPT !.listdir_calls = 1]]
    /\ pc' = [pc EXCEPT ![p] = "returned"]
    /\ ncalls' = ncalls + 1
    /\ UNCHANGED <<fs, active, cwd>>

\* render_math, lines 119-129: the path is a directory and find_in_dir finds
\* nothing; temp_filepath() creates the scratch file the image is rendered to
EnterMiss(p) ==
    /\ pc[p] = "idle" /\ ncalls < MaxCalls
    /\ \E s \in Sources, path \in Targets :
          LET f == NewFrame(s[1], path, s[2], s[3])
              scratch == TempName(fs, <<>>)
          IN /\ isdir(fs, path, cwd[p])
             /\ find_in_dir(fs, f.math_source, path, cwd[p]) = {}
             /\ frame' = [frame EXCEPT ![p] =
                   [f EXCEPT !.has_generated_name = TRUE, !.image_path = scratch]]
             /\ fs' = WriteFile(fs, Key(scratch, cwd[p]), 0)
             /\ obs' = [obs EXCEPT ![p] =
                   [NewObs EXCEPT !.listdir_calls = 1,
                                  !.created = {Key(scratch, cwd[p])}]]
    /\ pc' = [pc EXCEPT ![p] = "write_tex"]
    /\ ncalls' = ncalls + 1
    /\ UNCHANGED <<history, active, cwd>>

\* render_math, lines 119-131: the path is no directory; the image is
\* rendered to the path itself
EnterFile(p) ==
    /\ pc[p] = "idle" /\ ncalls < MaxCalls
    /\ \E s \in Sources, path \in Targets :
          /\ ~isdir(fs, path, cwd[p])
          /\ frame' = [frame EXCEPT ![p] =
                [NewFrame(s[1], path, s[2], s[3]) EXCEPT !.image_path = path]]
          /\ obs' = [obs EXCEPT ![p] = NewObs]
    /\ pc' = [pc EXCEPT ![p] = "write_tex"]
    /\ ncalls' = ncalls + 1
    /\ UNCHANGED <<fs, history, active, cwd>>

\* render_math, lines 134-138: the LaTeX source is written to a new .tex file
WriteTex(p) ==
    /\ pc[p] = "write_tex"
    /\ LET tempfilename == TempName(fs, <<".", "t", "e", "x">>)
       IN /\ frame' = [frame EXCEPT ![p].tempfilename = tempfilename]
          /\ fs' = WriteFile(fs, Key(tempfilename, cwd[p]), 0)
          /\ obs' = [obs EXCEPT ![p].created = @ \cup {Key(tempfilename, cwd[p])}]
    /\ pc' = [pc EXCEPT ![p] = "latex"]
    /\ UNCHANGED <<ncalls, history, active, cwd>>

\* the files a latex run leaves next to its input: latex runs in the
\* directory of the .tex file and names its outputs after it
LatexWrites(tempfilename, exts) ==
    {<<tempfilename.root, Sibling(tempfilename, e).name>> : e \in exts}

\* render_math, lines 140-145: latex runs in the directory of the .tex file
RunLatex(p) ==
    /\ pc[p] = "latex"
    /\ \E latex_err \in LatexErrs : \E exts \in LatexOutputs(latex_err) :
          LET made == LatexWrites(frame[p].tempfilename, exts)
          IN /\ fs' = [q \in DOMAIN fs \cup made |->
                          IF q \in made THEN [kind |-> "file", data |-> 0] ELSE fs[q]]
             /\ obs' = [obs EXCEPT ![p].latex_calls = @ + 1,
                                   ![p].created = @ \cup made]
             /\ IF LatexFailed(latex_err)
                THEN /\ frame' = [frame EXCEPT ![p].latex_err = latex_err,
                                               ![p].raised = "RuntimeError"]
                     /\ pc' = [pc EXCEPT ![p] = "raised"]
                ELSE /\ frame' = [frame EXCEPT ![p].latex_err = latex_err]
                     /\ pc' = [pc EXCEPT ![p] = "dvipng"]
    /\ UNCHANGED <<ncalls, history, active, cwd>>

\* render_math, lines 147-155: dvipng renders the .dvi to the absolute form of
\* image_path and prints the depth, which becomes the baseline
RunDvipng(p) ==
    /\ pc[p] = "dvipng"
    /\ \E dvipng_out \in DvipngOutputs : \E wrote \in DvipngWrites(dvipng_out) :
          LET o == abspath(frame[p].image_path, cwd[p])
              k == <<o.root, o.name>>
          IN /\ fs' = IF wrote THEN WriteFile(fs, k, p) ELSE fs
             /\ obs' = [obs EXCEPT ![p].dvipng_calls = @ + 1,
                                   ![p].dvipng_o = o,
                                   ![p].created = IF wrote THEN @ \cup {k} ELSE @]
             /\ IF ParseRaises(dvipng_out) # ""
                THEN /\ frame' = [frame EXCEPT ![p].dvipng_out = dvipng_out,
                                               ![p].raised = ParseRaises(dvipng_out)]
                     /\ pc' = [pc EXCEPT ![p] = "raised"]
                ELSE /\ frame' = [frame EXCEPT
                          ![p].dvipng_out = dvipng_out,
                          ![p].baseline = ParseDepth(dvipng_out),
                          ![p].math_source.baseline = ParseDepth(dvipng_out)]
                     /\ pc' = [pc EXCEPT ![p] = "finish"]
    /\ UNCHANGED <<ncalls, history, active, cwd>>

\* the files removed at the end: the .tex file and its three siblings
IntermediatesKeepLog(tempfilename) ==
    {<<tempfilename.root, tempfilename.name>>}
        \cup LatexWrites(tempfilename, {Dvi, Aux})

Intermediates(tempfilename) ==
    {<<tempfilename.root, tempfilename.name>>}
        \cup LatexWrites(tempfilename, {Dvi, Aux, Log})

\* the exception generated_filename raises, "" when it returns
generated_filename_raises_other(self) ==
    IF BaselineNotSet(self.baseline) THEN "RuntimeError" ELSE ""

generated_filename_raises(self) ==
    IF BaselineNotSet(self.baseline) THEN "BaselineNotSetException" ELSE ""

\* render_math, lines 162-165 up to the raise: directory mode, and
\* generated_filename raises; nothing is copied, nothing is removed
FinishRaise(p) ==
    /\ pc[p] = "finish"
    /\ frame[p].has_generated_name
    /\ generated_filename_raises(frame[p].math_source) # ""
    /\ frame' = [frame EXCEPT ![p].raised = generated_filename_raises(frame[p].math_source)]
    /\ pc' = [pc EXCEPT ![p] = "raised"]
    /\ UNCHANGED <<fs, ncalls, history, active, cwd, obs>>

\* render_math, lines 162-172, directory mode: the scratch file is copied to
\* the generated name in the directory and removed, the intermediates are
\* removed
FinishDir(p) ==
    /\ pc[p] = "finish"
    /\ frame[p].has_generated_name
    /\ generated_filename_raises(frame[p].math_source) = ""
    /\ LET f == frame[p]
           output_path == join(f.path, generated_filename(f.math_source))
           image == Key(f.image_path, cwd[p])
           dest == Key(output_path, cwd[p])
           copied == WriteFile(fs, dest, fs[image].data)
       IN /\ fs' = RemoveAll(copied, {image} \cup Intermediates(f.tempfilename))
          /\ frame' = [frame EXCEPT ![p].output_path = output_path]
          /\ obs' = [obs EXCEPT ![p].created = @ \cup {dest}]
          /\ history' = {Returned(f, cwd[p], output_path, f.baseline)}
    /\ pc' = [pc EXCEPT ![p] = "returned"]
    /\ UNCHANGED <<ncalls, active, cwd>>

\* render_math, lines 166-172, file mode: the intermediates are removed
FinishFile(p) ==
    /\ pc[p] = "finish"
    /\ ~frame[p].has_generated_name
    /\ fs' = RemoveAll(fs, Intermediates(frame[p].tempfilename))
    /\ frame' = [frame EXCEPT ![p].output_path = frame[p].path]
    /\ pc' = [pc EXCEPT ![p] = "returned"]
    /\ UNCHANGED <<ncalls, history, active, cwd, obs>>

\* a caller builds a MathSource and asks it for its generated filename
NewGeneratedFilename(p) ==
    /\ pc[p] = "idle" /\ ncalls < MaxCalls
    /\ \E s \in Sources :
          LET f == [NewFrame(s[1], NoPath, s[2], s[3]) EXCEPT
                       !.op = "generated_filename"]
              e == generated_filename_raises(f.math_source)
          IN /\ frame' = [frame EXCEPT ![p] =
                   IF e # "" THEN [f EXCEPT !.raised = e]
                   ELSE [f EXCEPT !.filename = generated_filename(f.math_source)]]
             /\ pc' = [pc EXCEPT ![p] = IF e # "" THEN "raised" ELSE "returned"]
    /\ obs' = [obs EXCEPT ![p] = NewObs]
    /\ UNCHANGED <<fs, ncalls, history, active, cwd>>

\* a caller builds a MathSource, looks it up in a directory with find_in_dir,
\* and asks it for its generated filename
FoundGeneratedFilename(p) ==
    /\ pc[p] = "idle" /\ ncalls < MaxCalls
    /\ \E s \in Sources, path \in Targets :
          LET f == [NewFrame(s[1], path, s[2], s[3]) EXCEPT
                       !.op = "generated_filename"]
              hits == find_in_dir(fs, f.math_source, path, cwd[p])
          IN /\ path.name = <<>>
             /\ \E filename \in IF hits = {} THEN {<<>>} ELSE hits :
                   LET baseline == IF hits = {} THEN None
                                   ELSE matches(f.math_source, filename)
                       g == [f EXCEPT !.math_source.baseline = baseline]
                       e == generated_filename_raises(g.math_source)
                   IN /\ frame' = [frame EXCEPT ![p] =
                         IF e # "" THEN [g EXCEPT !.raised = e]
                         ELSE [g EXCEPT !.filename = generated_filename(g.math_source)]]
                      /\ pc' = [pc EXCEPT ![p] = IF e # "" THEN "raised" ELSE "returned"]
    /\ obs' = [obs EXCEPT ![p] = [NewObs EXCEPT !.listdir_calls = 1]]
    /\ UNCHANGED <<fs, ncalls, history, active, cwd>>

\* the caller has its result, or its exception
Done(p) ==
    /\ pc[p] \in {"returned", "raised"}
    /\ pc' = [pc EXCEPT ![p] = "idle"]
    /\ frame' = [frame EXCEPT ![p] = NoFrame]
    /\ obs' = [obs EXCEPT ![p] = NoObs]
    /\ UNCHANGED <<fs, ncalls, history, active, cwd>>

Next ==
    \/ \E p \in active : EnterHit(p)
    \/ \E p \in active : EnterMiss(p)
    \/ \E p \in active : EnterFile(p)
    \/ \E p \in active : WriteTex(p)
    \/ \E p \in active : RunLatex(p)
    \/ \E p \in active : RunDvipng(p)
    \/ \E p \in active : FinishRaise(p)
    \/ \E p \in active : FinishDir(p)
    \/ \E p \in active : FinishFile(p)
    \/ \E p \in active : NewGeneratedFilename(p)
    \/ \E p \in active : FoundGeneratedFilename(p)
    \/ \E p \in active : Done(p)

Spec == Init /\ [][Next]_vars

\* ------------------------------------------- the process runner, step by step
\* the exit statuses a child can end with
ExitCodes == {0, 1}

\* what latex prints on its standard output
LatexOut == <<"l">>

\* what dvipng leaves on its error stream: a warning, which render_math
\* does not look at
DvipngErr == <<"w">>

\* proc.wait() returns: the child has terminated
wait_returns_at_once(proc) == TRUE

wait_returns(proc) == proc = "exited"

\* os.remove(filename) of a file that exists
os_remove_nothing(files, k) == files

os_remove(files, k) == RemoveAll(files, {k})

\* call(), lines 18-22: the two temporary files are created and the child is
\* started with its output streams directed to them
CallOpen(p) ==
    /\ pc[p] \in {"latex", "dvipng"}
    /\ frame[p].call.pc = ""
    /\ LET outfilename == TempName(fs, <<>>)
           with_out == WriteFile(fs, Key(outfilename, cwd[p]), 0)
           errfilename == TempName(with_out, <<>>)
           o == abspath(frame[p].image_path, cwd[p])
       IN /\ fs' = WriteFile(with_out, Key(errfilename, cwd[p]), 0)
          /\ frame' = [frame EXCEPT ![p].call =
                [NoCall EXCEPT !.pc = "wait", !.cmd = pc[p], !.proc = "running",
                               !.outfilename = outfilename,
                               !.errfilename = errfilename]]
          /\ obs' = [obs EXCEPT
                ![p].latex_calls = IF pc[p] = "latex" THEN @ + 1 ELSE @,
                ![p].dvipng_calls = IF pc[p] = "dvipng" THEN @ + 1 ELSE @,
                ![p].dvipng_o = IF pc[p] = "dvipng" THEN o ELSE @,
                ![p].procs[pc[p]] = "running",
                ![p].call_created = {Key(outfilename, cwd[p]), Key(errfilename, cwd[p])}]
    /\ UNCHANGED <<ncalls, history, active, pc, cwd>>

\* the latex child, started at line 143: it leaves its sibling files next to
\* the .tex file, writes its two streams and terminates
LatexRun(p) ==
    /\ frame[p].call.cmd = "latex"
    /\ frame[p].call.proc = "running"
    /\ \E latex_err \in LatexErrs, returncode \in ExitCodes :
          \E exts \in LatexOutputs(latex_err) :
             LET made == LatexWrites(frame[p].tempfilename, exts)
             IN /\ fs' = [q \in DOMAIN fs \cup made |->
                             IF q \in made THEN [kind |-> "file", data |-> 0] ELSE fs[q]]
                /\ frame' = [frame EXCEPT ![p].call.proc = "exited",
                                          ![p].call.returncode = returncode,
                                          ![p].call.outdata = LatexOut,
                                          ![p].call.errdata = latex_err]
                /\ obs' = [obs EXCEPT ![p].procs.latex = "exited",
                                      ![p].created = @ \cup made]
    /\ UNCHANGED <<ncalls, history, active, pc, cwd>>

\* the dvipng child, started at line 153: it writes the image to its -o
\* argument, writes its two streams and terminates
DvipngRun(p) ==
    /\ frame[p].call.cmd = "dvipng"
    /\ frame[p].call.proc = "running"
    /\ \E dvipng_out \in DvipngOutputs, returncode \in ExitCodes :
          \E wrote \in DvipngWrites(dvipng_out) :
             LET k == <<obs[p].dvipng_o.root, obs[p].dvipng_o.name>>
             IN /\ fs' = IF wrote THEN WriteFile(fs, k, p) ELSE fs
                /\ frame' = [frame EXCEPT ![p].call.proc = "exited",
                                          ![p].call.returncode = returncode,
                                          ![p].call.outdata = dvipng_out,
                                          ![p].call.errdata = DvipngErr]
                /\ obs' = [obs EXCEPT ![p].procs.dvipng = "exited",
                                      ![p].created = IF wrote THEN @ \cup {k} ELSE @]
    /\ UNCHANGED <<ncalls, history, active, pc, cwd>>

\* call(), lines 23-25: proc.wait() returns and the two files are closed
CallWait(p) ==
    /\ frame[p].call.pc = "wait"
    /\ wait_returns(frame[p].call.proc)
    /\ frame' = [frame EXCEPT ![p].call.pc = "read_out"]
    /\ UNCHANGED <<fs, ncalls, history, active, pc, cwd, obs>>

\* call(), lines 26-28: the standard output file is read and removed
CallReadOut(p) ==
    /\ frame[p].call.pc = "read_out"
    /\ frame' = [frame EXCEPT ![p].call.out = frame[p].call.outdata,
                              ![p].call.pc = "read_err"]
    /\ fs' = os_remove(fs, Key(frame[p].call.outfilename, cwd[p]))
    /\ UNCHANGED <<ncalls, history, active, pc, cwd, obs>>

\* call(), lines 29-31: the standard error file is read and removed
CallReadErr(p) ==
    /\ frame[p].call.pc = "read_err"
    /\ frame' = [frame EXCEPT ![p].call.err = frame[p].call.errdata,
                              ![p].call.pc = "return"]
    /\ fs' = os_remove(fs, Key(frame[p].call.errfilename, cwd[p]))
    /\ UNCHANGED <<ncalls, history, active, pc, cwd, obs>>

\* call() returns (out, err) at line 32 to render_math, lines 143-145
LatexReturn(p) ==
    /\ frame[p].call.pc = "return"
    /\ frame[p].call.cmd = "latex"
    /\ LET latex_err == frame[p].call.err
       IN IF LatexFailed(latex_err)
          THEN /\ frame' = [frame EXCEPT ![p].latex_err = latex_err,
                                         ![p].raised = "RuntimeError",
                                         ![p].call = NoCall]
               /\ pc' = [pc EXCEPT ![p] = "raised"]
          ELSE /\ frame' = [frame EXCEPT ![p].latex_err = latex_err,
                                         ![p].call = NoCall]
               /\ pc' = [pc EXCEPT ![p] = "dvipng"]
    /\ UNCHANGED <<fs, ncalls, history, active, cwd, obs>>

\* call() returns (out, err) at line 32 to render_math, lines 153-155
DvipngReturn(p) ==
    /\ frame[p].call.pc = "return"
    /\ frame[p].call.cmd = "dvipng"
    /\ LET dvipng_out == frame[p].call.out
       IN IF ParseRaises(dvipng_out) # ""
          THEN /\ frame' = [frame EXCEPT ![p].dvipng_out = dvipng_out,
                                         ![p].raised = ParseRaises(dvipng_out),
                                         ![p].call = NoCall]
               /\ pc' = [pc EXCEPT ![p] = "raised"]
          ELSE /\ frame' = [frame EXCEPT
                    ![p].dvipng_out = dvipng_out,
                    ![p].baseline = ParseDepth(dvipng_out),
                    ![p].math_source.baseline = ParseDepth(dvipng_out),
                    ![p].call = NoCall]
               /\ pc' = [pc EXCEPT ![p] = "finish"]
    /\ UNCHANGED <<fs, ncalls, history, active, cwd, obs>>

\* render_math with call() taken step by step
NextRunner ==
    \/ \E p \in active : ncalls < MaxRunnerCalls /\ EnterHit(p)
    \/ \E p \in active : ncalls < MaxRunnerCalls /\ EnterMiss(p)
    \/ \E p \in active : ncalls < MaxRunnerCalls /\ EnterFile(p)
    \/ \E p \in active : WriteTex(p)
    \/ \E p \in active : CallOpen(p)
    \/ \E p \in active : LatexRun(p)
    \/ \E p \in active : DvipngRun(p)
    \/ \E p \in active : CallWait(p)
    \/ \E p \in active : CallReadOut(p)
    \/ \E p \in active : CallReadErr(p)
    \/ \E p \in active : LatexReturn(p)
    \/ \E p \in active : DvipngReturn(p)
    \/ \E p \in active : FinishRaise(p)
    \/ \E p \in active : FinishDir(p)
    \/ \E p \in active : FinishFile(p)
    \/ \E p \in active : Done(p)

SpecRunner == Init /\ [][NextRunner]_vars

\* ------------------------------------------------------- concurrent callers
\* two callers, each in a process of its own with its own working directory,
\* and nothing in the directories yet
InitConc ==
    /\ fs = InitFs({}, {})
    /\ ncalls = 0
    /\ history = {}
    /\ active = Procs
    /\ pc = [p \in Procs |-> "idle"]
    /\ cwd \in [Procs -> WorkDirs]
    /\ frame = [p \in Procs |-> NoFrame]
    /\ obs = [p \in Procs |-> NoObs]

\* the directory the concurrent callers render to
ConcDir == "cache"

\* the call caller p enters is one for the source S0 with ConcDir as its
\* directory
ConcCall(p) ==
    /\ [frame'[p].math_source EXCEPT !.baseline = None] = S0
    /\ frame'[p].path.name = <<>>
    /\ RootOf(frame'[p].path, cwd[p]) = ConcDir

\* the steps of the callers interleave; render_math takes no lock.  A run of
\* latex or dvipng through call() is one step: the files it touches are the
\* caller's own
NextConc ==
    \/ \E p \in active : EnterHit(p) /\ ConcCall(p)
    \/ \E p \in active : EnterMiss(p) /\ ConcCall(p)
    \/ \E p \in active : WriteTex(p)
    \/ \E p \in active : RunLatex(p)
    \/ \E p \in active : RunDvipng(p)
    \/ \E p \in active : FinishRaise(p)
    \/ \E p \in active : FinishDir(p)
    \/ \E p \in active : Done(p)

SpecConc == InitConc /\ [][NextConc]_vars

\* ------------------------------------------------------------------ claims
InCall(p) == p \in active /\ pc[p] # "idle" /\ frame[p].op = "render_math"

Ended(p) == pc[p] \in {"returned", "raised"}

\* the MathSource of the arguments of a call
Source(p) ==
    MathSource(frame[p].math_source.src, frame[p].math_source.dpi,
               frame[p].math_source.is_display)

\* the target directory of a directory-mode call
TargetDir(p) == RootOf(frame[p].path, cwd[p])

\* name has the form {identity}_<digits>_<anything>, the digits having value b
HasCacheForm(self, name, b) ==
    LET d == Len(hashed(self)) + 2
        e == DigitRunEnd(name, d)
    IN /\ StartsAt(name, 1, hashed(self) \o <<"_">>)
       /\ e >= d /\ e + 1 <= Len(name) /\ name[e + 1] = "_"
       /\ int(SubSeq(name, d, e)) = b

\* C1: after a directory-mode call has returned, a call with the same
\* arguments and the same directory returns the same path and baseline and
\* runs neither latex nor dvipng.
C1_CacheRoundTrip ==
    \A p \in Procs : InCall(p) =>
        \A h \in obs[p].prior :
            (/\ h.src = frame[p].math_source.src /\ h.dpi = frame[p].math_source.dpi
             /\ h.is_display = frame[p].math_source.is_display
             /\ h.path = frame[p].path /\ h.dir = TargetDir(p))
            => /\ obs[p].latex_calls = 0
               /\ obs[p].dvipng_calls = 0
               /\ pc[p] # "raised"
               /\ pc[p] = "returned" =>
                     /\ frame[p].output_path = h.rpath
                     /\ frame[p].baseline = h.baseline

\* C2: in directory mode, when latex leaves its error stream empty and dvipng
\* prints depth=<digits>, the call ends without error for every value of the
\* digits: the image is at {identity}_{baseline}_.png in the directory, the
\* scratch file is gone, and the call returns that path and the parsed baseline.
C2_DirectoryModeCompletion ==
    \A p \in Procs :
        (/\ InCall(p) /\ Ended(p) /\ isdir(fs, frame[p].path, cwd[p])
         /\ obs[p].dvipng_calls = 1 /\ ~DepthMissing(frame[p].dvipng_out))
        => /\ pc[p] = "returned"
           /\ frame[p].baseline = ParseDepth(frame[p].dvipng_out)
           /\ frame[p].output_path.root = frame[p].path.root
           /\ HasCacheForm(frame[p].math_source, frame[p].output_path.name,
                           frame[p].baseline)
           /\ Key(frame[p].output_path, cwd[p]) \in DOMAIN fs
           /\ Key(frame[p].image_path, cwd[p]) \notin DOMAIN fs

\* C3: when latex leaves something on its error stream, the call raises
\* RuntimeError, dvipng is not run, and no output file is produced: nothing is
\* written at the path in file mode, nothing in the directory in directory mode.
C3_TypesettingFailure ==
    \A p \in Procs :
        (InCall(p) /\ obs[p].latex_calls >= 1 /\ frame[p].latex_err # <<>>)
        => /\ pc[p] = "raised"
           /\ frame[p].raised = "RuntimeError"
           /\ obs[p].dvipng_calls = 0
           /\ frame[p].output_path = NoPath
           /\ \A k \in obs[p].created :
                 /\ k # <<cwd[p], frame[p].path.name>>
                 /\ frame[p].path.name = <<>> => k[1] # TargetDir(p)

C3_Witness ==
    \E p \in Procs :
        /\ InCall(p) /\ frame[p].latex_err # <<>> /\ pc[p] = "raised"
        /\ frame[p].path.name = <<>> /\ obs[p].created # {}

\* C4: when the path is not an existing directory, the call lists no
\* directory and matches no filename, runs latex, then dvipng with the
\* absolute form of the path as its output, and returns the path itself;
\* nothing is copied and no filename is generated.
C4_FileMode ==
    \A p \in Procs :
        (InCall(p) /\ ~isdir(fs, frame[p].path, cwd[p]))
        => /\ obs[p].listdir_calls = 0
           /\ frame[p].filename = <<>>
           /\ obs[p].latex_calls = (IF pc[p] \in {"write_tex", "latex"} THEN 0 ELSE 1)
           /\ obs[p].dvipng_calls =
                 (IF pc[p] \in {"finish", "returned"} \/ frame[p].dvipng_out # <<>>
                  THEN 1 ELSE 0)
           /\ pc[p] = "dvipng" => frame[p].latex_err = <<>>
           /\ obs[p].dvipng_calls = 1 =>
                 /\ obs[p].dvipng_o.root = (IF frame[p].path.root = "." THEN cwd[p]
                                            ELSE frame[p].path.root)
                 /\ obs[p].dvipng_o.name = frame[p].path.name
           /\ pc[p] = "returned" =>
                 /\ frame[p].output_path = frame[p].path
                 /\ \A k \in obs[p].created :
                       k[1] = TempDir \/ k = <<cwd[p], frame[p].path.name>>

C4_Witness ==
    \E p \in Procs :
        /\ InCall(p) /\ ~isdir(fs, frame[p].path, cwd[p]) /\ pc[p] = "returned"
        /\ frame[p].path.root = "." /\ obs[p].dvipng_o.root = "cache"
        /\ <<"cache", frame[p].path.name>> \in DOMAIN fs

\* C5: a call that returns returns an integer baseline >= 0, and in directory
\* mode a path that is an entry of the target directory, named
\* {identity}_{B}_<suffix> for the identity of the call's arguments and B the
\* returned baseline.
C5_ReturnedValue ==
    \A p \in Procs :
        (InCall(p) /\ pc[p] = "returned")
        => /\ frame[p].baseline \in Nat
           /\ frame[p].path.name = <<>> =>
                 /\ frame[p].output_path.root = frame[p].path.root
                 /\ Key(frame[p].output_path, cwd[p]) \in DOMAIN fs
                 /\ HasCacheForm(Source(p),
                                 frame[p].output_path.name, frame[p].baseline)

\* C6: after a call that went through the render procedure returns, the .tex
\* file and its .dvi, .aux and .log siblings do not exist, nor, in directory
\* mode, the scratch image; a sibling latex never made is no error.
C6_TempCleanup ==
    \A p \in Procs :
        (InCall(p) /\ pc[p] = "returned" /\ obs[p].latex_calls = 1)
        => /\ Key(frame[p].tempfilename, cwd[p]) \notin DOMAIN fs
           /\ \A e \in {Dvi, Aux, Log} :
                 Key(Sibling(frame[p].tempfilename, e), cwd[p]) \notin DOMAIN fs
           /\ frame[p].path.name = <<>> =>
                 Key(frame[p].image_path, cwd[p]) \notin DOMAIN fs

C6_Witness ==
    \E p \in Procs :
        /\ InCall(p) /\ pc[p] = "returned" /\ obs[p].latex_calls = 1
        /\ frame[p].path.name = <<>>
        /\ Key(frame[p].tempfilename, cwd[p]) \in obs[p].created
        /\ Key(Sibling(frame[p].tempfilename, Log), cwd[p]) \in obs[p].created
        /\ Key(Sibling(frame[p].tempfilename, Aux), cwd[p]) \notin obs[p].created
        /\ Key(frame[p].image_path, cwd[p]) \in obs[p].created

\* C7: two (expression, resolution, display_mode) triples that differ in a
\* component have different identities, the digest being collision-free on
\* the bytes it is fed.
C7_IdentitySeparation ==
    \A p \in Procs : (p \in active /\ pc[p] # "idle") =>
        \A u \in Triples :
            u # <<Source(p).src, Source(p).dpi, Source(p).is_display>>
            => hashed(MathSource(u[1], u[2], u[3])) # hashed(frame[p].math_source)

\* C8: generated_filename on a MathSource whose baseline is unset raises
\* BaselineNotSetException, which is neither the typesetting failure nor the
\* parse failure, and gives no filename.
C8_BaselineNotSet ==
    \A p \in Procs :
        (/\ p \in active /\ pc[p] # "idle" /\ frame[p].op = "generated_filename"
         /\ frame[p].math_source.baseline = None)
        => /\ pc[p] = "raised"
           /\ frame[p].raised = "BaselineNotSetException"
           /\ frame[p].raised \notin {"RuntimeError", "AttributeError"}
           /\ frame[p].filename = <<>>

C8_Witness ==
    \E p \in Procs :
        /\ pc[p] = "raised" /\ frame[p].op = "generated_filename"
        /\ frame[p].math_source.baseline = None
        /\ frame[p].path = NoPath

\* C9: when latex leaves its error stream empty and dvipng prints no
\* depth=<digits>, the call ends with an error, no baseline is recorded on the
\* MathSource, and in directory mode nothing is added to the directory.
C9_BaselineParseFailure ==
    \A p \in Procs :
        (/\ InCall(p) /\ obs[p].dvipng_calls = 1 /\ frame[p].latex_err = <<>>
         /\ DepthPositions(frame[p].dvipng_out) = {})
        => /\ pc[p] = "raised"
           /\ frame[p].raised # ""
           /\ frame[p].math_source.baseline = None
           /\ frame[p].baseline = None
           /\ frame[p].output_path = NoPath
           /\ frame[p].path.name = <<>> =>
                 \A k \in obs[p].created : k[1] # TargetDir(p)

C9_Witness ==
    \E p \in Procs :
        /\ InCall(p) /\ obs[p].dvipng_calls = 1 /\ pc[p] = "raised"
        /\ DepthPositions(frame[p].dvipng_out) = {}
        /\ frame[p].path.name = <<>>
        /\ Key(frame[p].image_path, cwd[p]) \in DOMAIN fs
        /\ fs[Key(frame[p].image_path, cwd[p])].data = p

\* C10: find_in_dir finds a file exactly when an entry of the directory is a
\* regular file whose name matches {identity}_<digits>_<anything>; it then
\* returns that entry's path and the digits as the baseline, recorded on the
\* MathSource, and render_math returns at once without running a program.
C10_CacheLookup ==
    \A p \in Procs :
        (InCall(p) /\ frame[p].path.name = <<>> /\ obs[p].latex_calls = 0)
        => LET self == Source(p)
               good == {n \in listdir(fs, frame[p].path, cwd[p]) :
                           /\ fs[<<TargetDir(p), n>>].kind = "file"
                           /\ MatchPositions(self, n) # {}}
           IN /\ pc[p] = "returned" <=> good # {}
              /\ pc[p] = "returned" =>
                    /\ frame[p].filename \in good
                    /\ frame[p].output_path = join(frame[p].path, frame[p].filename)
                    /\ frame[p].baseline = matches(self, frame[p].filename)
                    /\ frame[p].math_source.baseline = frame[p].baseline
                    /\ obs[p].dvipng_calls = 0

\* the file at key k is a cached artifact a render has put in a directory: a
\* file written by dvipng under a generated filename
CachedArtifact(k) ==
    /\ k[1] # TempDir /\ fs[k].kind = "file" /\ fs[k].data # 0
    /\ \E s \in Sources, o \in DvipngOutputs :
          /\ ~BaselineNotSet(ParseDepth(o))
          /\ k[2] = generated_filename(
                       [MathSource(s[1], s[2], s[3]) EXCEPT !.baseline = ParseDepth(o)])

\* the step copies a rendered image onto the file at key k
CopiedOnto(k) ==
    \E p \in Procs :
        /\ pc[p] = "finish" /\ pc'[p] = "returned" /\ frame[p].has_generated_name
        /\ Key(frame'[p].output_path, cwd[p]) = k

\* C11: a cached artifact a render has created in a directory is never
\* written, overwritten or deleted by a later step of any render_math call.
C11_ArtifactsNeverMutated ==
    [][\A k \in DOMAIN fs : CachedArtifact(k) =>
          /\ k \in DOMAIN fs' /\ fs'[k] = fs[k]
          /\ ~CopiedOnto(k)]_vars

\* C14: when render_math raises because latex left something on its error
\* stream, no temporary file the call created remains: not the .tex file, not
\* its .dvi, .aux and .log siblings, not (directory mode) the scratch image.
C14_TempRemovalOnFailure ==
    \A p \in Procs :
        (/\ InCall(p) /\ pc[p] = "raised" /\ obs[p].latex_calls = 1
         /\ frame[p].latex_err # <<>>)
        => /\ Key(frame[p].tempfilename, cwd[p]) \notin DOMAIN fs
           /\ \A e \in {Dvi, Aux, Log} :
                 Key(Sibling(frame[p].tempfilename, e), cwd[p]) \notin DOMAIN fs
           /\ frame[p].has_generated_name =>
                 Key(frame[p].image_path, cwd[p]) \notin DOMAIN fs

\* caller p is inside call()
InRunner(p) == p \in active /\ frame[p].call.pc # ""

\* C12: every call() creates exactly two temporary files, one per stream;
\* it reads neither before the child has terminated; when it returns, out and
\* err are all the child wrote to the two files and both files are deleted,
\* whatever the child's exit status, which is no part of the result.
C12_RunnerTempFiles ==
    \A p \in Procs : InRunner(p) =>
        LET c == frame[p].call
            outkey == Key(c.outfilename, cwd[p])
            errkey == Key(c.errfilename, cwd[p])
        IN /\ obs[p].call_created = {outkey, errkey}
           /\ Cardinality(obs[p].call_created) = 2
           /\ c.pc = "wait" => outkey \in DOMAIN fs /\ errkey \in DOMAIN fs
           /\ c.pc \in {"read_out", "read_err", "return"} => c.proc = "exited"
           /\ c.pc \in {"read_err", "return"} =>
                 c.out = c.outdata /\ outkey \notin DOMAIN fs
           /\ c.pc = "return" =>
                 /\ c.err = c.errdata /\ errkey \notin DOMAIN fs
                 /\ c.returncode \in ExitCodes

C12_Witness ==
    \E p \in Procs :
        /\ InRunner(p) /\ frame[p].call.pc = "return"
        /\ frame[p].call.returncode = 1
        /\ frame[p].call.out # <<>> /\ frame[p].call.err # <<>>
        /\ frame[p].call.cmd = "latex"

\* C13: within one render_math call latex is started at most once and dvipng
\* at most once; dvipng is started only after the .tex file has been written
\* and closed and the latex process has terminated with an empty error
\* stream; the two never run at the same time; a call that has raised has
\* started neither again and has neither running.
C13_InvocationOrdering ==
    \A p \in Procs : InCall(p) =>
        /\ obs[p].latex_calls <= 1 /\ obs[p].dvipng_calls <= 1
        /\ obs[p].latex_calls = (IF obs[p].procs.latex = "none" THEN 0 ELSE 1)
        /\ obs[p].dvipng_calls = (IF obs[p].procs.dvipng = "none" THEN 0 ELSE 1)
        /\ obs[p].procs.latex # "none" =>
              /\ frame[p].tempfilename # NoPath
              /\ Key(frame[p].tempfilename, cwd[p]) \in obs[p].created
        /\ obs[p].procs.dvipng # "none" =>
              /\ obs[p].procs.latex = "exited"
              /\ frame[p].latex_err = <<>>
              /\ ~LatexFailed(frame[p].latex_err)
        /\ ~(obs[p].procs.latex = "running" /\ obs[p].procs.dvipng = "running")
        /\ pc[p] = "raised" =>
              /\ obs[p].procs.latex # "running" /\ obs[p].procs.dvipng # "running"
              /\ frame[p].call.pc = ""
              /\ frame[p].latex_err # <<>> => obs[p].dvipng_calls = 0

C13_Witness ==
    \E p \in Procs :
        /\ InCall(p) /\ obs[p].procs.dvipng = "running"
        /\ obs[p].procs.latex = "exited" /\ obs[p].latex_calls = 1
        /\ Key(Sibling(frame[p].tempfilename, Dvi), cwd[p]) \in DOMAIN fs

\* the entries of ConcDir that are artifacts for the identity of S0
ConcArtifacts ==
    {k \in DOMAIN fs : k[1] = ConcDir /\ fs[k].kind = "file"
                       /\ MatchPositions(S0, k[2]) # {}}

\* caller p has rendered (missed the cache, run latex and dvipng) and returned
RenderedAndReturned(p) ==
    /\ InCall(p) /\ pc[p] = "returned"
    /\ obs[p].latex_calls = 1 /\ obs[p].dvipng_calls = 1

\* what holds in every state of two unsynchronised callers: until a call
\* returns, every file it created exists with the content it gave it, and
\* two calls that have not returned have created no file in common; when both
\* have rendered and returned with the same baseline, they have returned the
\* same file, which is the only artifact for the identity in the directory
C15_State ==
    \A p \in Procs : InCall(p) =>
        /\ pc[p] # "returned" =>
              \A k \in obs[p].created :
                 k \in DOMAIN fs /\ k[1] = TempDir /\ fs[k].data \in {0, p}
        /\ \A q \in Procs \ {p} :
              /\ (InCall(q) /\ pc[p] # "returned" /\ pc[q] # "returned") =>
                    obs[p].created \cap obs[q].created = {}
              /\ (/\ RenderedAndReturned(p) /\ RenderedAndReturned(q)
                  /\ frame[p].baseline = frame[q].baseline) =>
                    /\ Key(frame[p].output_path, cwd[p]) =
                          Key(frame[q].output_path, cwd[q])
                    /\ frame[p].path = frame[q].path =>
                          frame[p].output_path = frame[q].output_path
                    /\ ConcArtifacts = {Key(frame[p].output_path, cwd[p])}

\* a step in which caller p copies its image to the directory leaves the
\* artifact with p's image as its content
C15_LastCopy ==
    \A p \in Procs :
        (pc[p] = "finish" /\ pc'[p] = "returned") =>
            /\ Key(frame'[p].output_path, cwd[p]) \in DOMAIN fs'
            /\ fs'[Key(frame'[p].output_path, cwd[p])].data = p

\* C15: two unsynchronised calls for one identity against one initially
\* empty directory can both miss the cache and both run latex and dvipng; each
\* uses scratch and intermediate files of its own, which the other's cleanup
\* never removes; with the same baseline both copy to the same filename, the
\* last copy determines its content, and when both have finished the
\* directory holds exactly one artifact for the identity, which both return
\* with the same baseline.
C15_ConcurrentRenders == []C15_State /\ [][C15_LastCopy]_vars

C15_Witness ==
    /\ RenderedAndReturned(1) /\ RenderedAndReturned(2)
    /\ obs[1].listdir_calls = 1 /\ obs[2].listdir_calls = 1
    /\ frame[1].baseline = frame[2].baseline
    /\ frame[1].output_path = frame[2].output_path
    /\ cwd[1] = ConcDir /\ cwd[2] = ConcDir
    /\ ConcArtifacts = {Key(frame[1].output_path, cwd[1])}
    /\ fs[Key(frame[1].output_path, cwd[1])].data = 1

====
